---- MODULE Spec2Model ----
(***************************************************************************)
(* AI Job Agent: the history store, the dedup/filter engine and the       *)
(* linear pipeline that threads one run-state through the stages.         *)
(*                                                                         *)
(* Python strings are sequences of one-character strings, so that          *)
(* str.lower(), the substring test `kw in title` and set("ab") do what     *)
(* they do in Python.  A dict with optional keys is a function whose       *)
(* DOMAIN holds the keys present.                                          *)
(***************************************************************************)
EXTENDS Integers, Sequences, FiniteSets, TLC

VARIABLES
    pc,                 \* the node the graph runs next ("END", "RAISED" when a run is over)
    raw_emails,         \* AgentState fields
    jobs,
    duplicate_jobs,
    filtered_jobs,
    notifications_sent,
    threshold,          \* config.match_threshold / JobFilter.threshold
    file,               \* content of the history file at config.history_path
    history,            \* JobFilter.history of the live JobFilter instance
    loaded,             \* the latest _load_history: whether the read succeeded, the set returned
    excluded_count,     \* local of the deduplicate_jobs node
    all_jobs,           \* local of the deduplicate_jobs node (state["jobs"] on entry)
    last_save,          \* the _save_history of the latest filter_jobs: how it ended, the file's set
                        \* before, the set written, how often filter_jobs called it
    io_failed,          \* a history-file read or write has failed in this or an earlier run
    delivered,          \* links that were in filtered_jobs of an earlier run
    notified,           \* links of jobs whose notification send succeeded
    pre_history,        \* links the history file listed before the first run
    run,                \* the number of the run in progress
    last_call,          \* the latest direct JobFilter.filter_jobs call on the job list
    procs,              \* runs in progress at the same time: each one's node and AgentState
    reply,              \* what the model call of the stage call looked at on its own gives
    env,                \* MATCH_THRESHOLD in the environment config.py is imported in
    clean_call          \* the URL _clean_linkedin_url was called on, what it returned, and
                        \* what it returned when called on that

vars == <<pc, raw_emails, jobs, duplicate_jobs, filtered_jobs, notifications_sent,
          threshold, file, history, loaded, excluded_count, all_jobs, last_save,
          io_failed, delivered, notified, pre_history, run, last_call, procs, reply, env, clean_call>>

----------------------------------------------------------------------------
(* Bounds *)

MaxJobs == 2        \* job anchors in one run's emails; jobs in one filter_jobs call
MaxEmails == 2      \* emails fetched in one run
MaxRuns == 2        \* runs of the pipeline, one after the other
MaxListed == 3      \* entries of the sent_jobs array of a history file read on its own
MaxConcurrentJobs == 1  \* jobs parsed by each of two runs in progress at the same time
MaxEntries == 2     \* entries of the array a Stage A reply looked at on its own holds
MaxElements == 2    \* job elements of an email body parsed on its own
MaxUrlLen == 5      \* elements of a URL cleaned on its own

----------------------------------------------------------------------------
(* Strings *)

UpperAlpha == <<"A","B","C","D","E","F","G","H","I","J","K","L","M","N","O","P","Q","R","S","T","U","V","W","X","Y","Z">>
LowerAlpha == <<"a","b","c","d","e","f","g","h","i","j","k","l","m","n","o","p","q","r","s","t","u","v","w","x","y","z">>

LowerChar(c) ==
    IF \E i \in 1..Len(UpperAlpha) : UpperAlpha[i] = c
    THEN LowerAlpha[CHOOSE i \in 1..Len(UpperAlpha) : UpperAlpha[i] = c]
    ELSE c

\* str.lower()
Lower(s) == [i \in 1..Len(s) |-> LowerChar(s[i])]

\* `k in s` for strings
Contains(s, k) ==
    \E i \in 0..(Len(s) - Len(k)) : SubSeq(s, i + 1, i + Len(k)) = k

\* str.strip(), for the blank " "
RECURSIVE LStrip(_)
LStrip(s) == IF s # <<>> /\ Head(s) = " " THEN LStrip(Tail(s)) ELSE s

RECURSIVE RStrip(_)
RStrip(s) == IF s # <<>> /\ s[Len(s)] = " " THEN RStrip(SubSeq(s, 1, Len(s) - 1)) ELSE s

Strip(s) == RStrip(LStrip(s))

\* s is a non-empty string of decimal digits.
Digits == <<"0","1","2","3","4","5","6","7","8","9">>

IsDigits(s) == s # <<>> /\ \A i \in 1..Len(s) : \E d \in 1..10 : Digits[d] = s[i]

RECURSIVE DecimalValue(_)
DecimalValue(s) ==
    IF s = <<>> THEN 0
    ELSE 10 * DecimalValue(SubSeq(s, 1, Len(s) - 1))
         + (CHOOSE d \in 1..10 : Digits[d] = s[Len(s)]) - 1

\* The two literals the URL patterns of the parser are made of.  A URL is a sequence
\* in which each of them, where it occurs, is one element, and every other character
\* is an element of its own.
LinkedinOrigin == "https://www.linkedin.com"
JobViewPath == "/comm/jobs/view/"

\* Canonical links of two postings.
Link1 == <<LinkedinOrigin, JobViewPath, "1">>
Link2 == <<LinkedinOrigin, JobViewPath, "2">>

K_senior == <<"s","e","n","i","o","r">>
K_lead == <<"l","e","a","d">>
K_principal == <<"p","r","i","n","c","i","p","a","l">>
K_architect == <<"a","r","c","h","i","t","e","c","t">>
K_director == <<"d","i","r","e","c","t","o","r">>
K_manager == <<"m","a","n","a","g","e","r">>
K_head_of == <<"h","e","a","d"," ","o","f">>
K_sent_jobs == <<"s","e","n","t","_","j","o","b","s">>

excluded_keywords ==
    <<K_senior, K_lead, K_principal, K_architect, K_director, K_manager, K_head_of>>

T_Engineering == <<"E","n","g","i","n","e","e","r","i","n","g">>
T_SeniorEngineer == <<"S","e","n","i","o","r"," ","E","n","g","i","n","e","e","r">>
T_SENIOR_ENGINEER == <<"S","E","N","I","O","R"," ","E","N","G","I","N","E","E","R">>
T_PreSeniorish == <<"P","r","e","-","S","e","n","i","o","r","-","i","s","h"," ","E","n","g","i","n","e","e","r">>
T_HeadOfData == <<"H","e","a","d"," ","o","f"," ","D","a","t","a">>
T_DataAnalyst == <<"D","a","t","a"," ","A","n","a","l","y","s","t">>

T_TeamLead == <<"T","e","a","m"," ","L","e","a","d">>
T_Leader == <<"L","e","a","d","e","r","s","h","i","p"," ","C","o","a","c","h">>
T_PRINCIPAL == <<"P","R","I","N","C","I","P","A","L"," ","D","e","v">>
T_Architect == <<"C","l","o","u","d"," ","a","r","c","h","i","t","e","c","t">>
T_Director == <<"A","r","t"," ","D","i","r","e","c","t","o","r">>
T_Manager == <<"M","A","N","A","G","E","R">>
T_HeadOffice == <<"H","e","a","d"," ","O","f","f","i","c","e">>
T_Headof == <<"H","e","a","d","o","f"," ","D","a","t","a">>
T_Junior == <<"J","u","n","i","o","r"," ","D","e","v">>

\* Titles and links the runs draw their postings from.
Titles == {T_Engineering, T_SeniorEngineer}
Links == {Link1, Link2}

----------------------------------------------------------------------------
(* The history file.  A file content is a tagged value [t, v]:             *)
(*   nofile   the path does not exist                                      *)
(*   garbage  bytes json.load rejects (empty, truncated, not JSON)         *)
(*   null, num, str, arr, obj   a JSON document; an obj keeps only its     *)
(*   "sent_jobs" member: v is <<>> (no such key) or <<value>>.             *)

NoFile == [t |-> "nofile", v |-> <<>>]
Garbage == [t |-> "garbage", v |-> <<>>]
JNull == [t |-> "null", v |-> <<>>]
JNum(n) == [t |-> "num", v |-> n]
JStr(s) == [t |-> "str", v |-> s]
JArr(a) == [t |-> "arr", v |-> a]
JObj(member) == [t |-> "obj", v |-> member]

\* JSON values in a model's reply: true/false, the number k/8 (exact as a float, as
\* is its product with 100), NaN or Infinity, and an object as the function from
\* its keys to its values.
JBool(b) == [t |-> "bool", v |-> b]
JFrac(k) == [t |-> "frac", v |-> k]
NonFinite == [t |-> "nonfinite", v |-> 0]
JDict(m) == [t |-> "dict", v |-> m]

\* What a model call gives: it raises, or it returns a message whose content decodes
\* to body (Garbage: content that json.loads rejects, or that is None).
NoReply == [k |-> "none"]
Raises == [k |-> "raises"]
Content(body) == [k |-> "content", body |-> body]

\* dict.get(key, default)
Get(m, key, default) == IF key \in DOMAIN m THEN m[key] ELSE default

\* An environment variable: not set, or set to the string s.
NoEnv == [set |-> FALSE, v |-> <<>>]
EnvSet(s) == [set |-> TRUE, v |-> s]

\* os.getenv(name, default)
GetEnv(e, default) == IF e.set THEN e.v ELSE default

\* No _clean_linkedin_url call was made yet.
NoUrl == [given |-> <<>>, once |-> <<>>, twice |-> <<>>]

\* The sequences that list the set S once each, in any order: list(set).
Orderings(S) ==
    {q \in [1..Cardinality(S) -> S] : \A i, j \in 1..Cardinality(S) : q[i] = q[j] => i = j}

\* The file json.dump({"sent_jobs": lst}) writes.
HistoryDocument(lst) == JObj(<<JArr([i \in 1..Len(lst) |-> JStr(lst[i])])>>)

\* A file is well formed when it is an object whose sent_jobs is an array of strings.
WellFormed(f) ==
    /\ f.t = "obj"
    /\ Len(f.v) = 1
    /\ f.v[1].t = "arr"
    /\ \A i \in 1..Len(f.v[1].v) : f.v[1].v[i].t = "str"

\* The links a well-formed file lists.
ListedLinks(f) == {f.v[1].v[i].v : i \in 1..Len(f.v[1].v)}

\* set(x) on a decoded JSON value: [raised, s].  A list gives its elements when all
\* are hashable (a nested list or dict is not), a str gives its characters, an
\* object gives its keys, None and numbers are not iterable.
PySet(x) ==
    CASE x.t = "arr" ->
            IF \A i \in 1..Len(x.v) : x.v[i].t = "str"
            THEN [raised |-> FALSE, s |-> {x.v[i].v : i \in 1..Len(x.v)}]
            ELSE [raised |-> TRUE, s |-> {}]
      [] x.t = "str" -> [raised |-> FALSE, s |-> {<<x.v[i]>> : i \in 1..Len(x.v)}]
      [] x.t = "obj" -> [raised |-> FALSE, s |-> IF Len(x.v) = 1 THEN {K_sent_jobs} ELSE {}]
      [] OTHER -> [raised |-> TRUE, s |-> {}]

\* JobFilter._load_history; read_ok is whether open()/read of an existing file succeeds.
LoadHistory(f, read_ok) ==
    IF f.t = "nofile" THEN {}
    ELSE IF ~read_ok \/ f.t = "garbage" THEN {}          \* open or json.load raised
    ELSE IF f.t # "obj" THEN {}                          \* data.get raised AttributeError
    ELSE IF Len(f.v) = 0 THEN {}                         \* set([])
    ELSE PySet(f.v[1]).s                                 \* {} when set() raised

----------------------------------------------------------------------------
(* JobFilter *)

\* JobFilter._is_senior_role: the keyword loop with its early return.
RECURSIVE SeniorLoop(_, _)
SeniorLoop(title_lower, k) ==
    IF k > Len(excluded_keywords) THEN FALSE
    ELSE IF Contains(title_lower, excluded_keywords[k]) THEN TRUE
    ELSE SeniorLoop(title_lower, k + 1)

\* _is_senior_role as it would be without title.lower().
IsSeniorRoleCaseSensitive(title) == SeniorLoop(title, 1)

\* JobFilter._is_senior_role

IsSeniorRole(title) == SeniorLoop(Lower(title), 1)

\* The iteration as it would be with the history looked up before the title.
DedupStepHistoryFirst(acc, job, hist) ==
    IF job.link \in hist
    THEN [acc EXCEPT !.duplicate_jobs = Append(@, job)]
    ELSE IF IsSeniorRole(job.title)
    THEN [acc EXCEPT !.excluded_jobs = Append(@, job)]
    ELSE [acc EXCEPT !.new_jobs = Append(@, job)]

\* The iteration as it would be with a duplicate also kept for analysis.
DedupStepBoth(acc, job, hist) ==
    IF IsSeniorRole(job.title)
    THEN [acc EXCEPT !.excluded_jobs = Append(@, job)]
    ELSE IF job.link \in hist
    THEN [acc EXCEPT !.duplicate_jobs = Append(@, job), !.new_jobs = Append(@, job)]
    ELSE [acc EXCEPT !.new_jobs = Append(@, job)]

\* The iteration as it would be without the look-up in the history.
DedupStepAllNew(acc, job, hist) ==
    IF IsSeniorRole(job.title)
    THEN [acc EXCEPT !.excluded_jobs = Append(@, job)]
    ELSE [acc EXCEPT !.new_jobs = Append(@, job)]

\* One iteration of the loop of JobFilter.deduplicate_jobs.

DedupStep(acc, job, hist) ==
    IF IsSeniorRole(job.title)
    THEN [acc EXCEPT !.excluded_jobs = Append(@, job)]
    ELSE IF job.link \in hist
    THEN [acc EXCEPT !.duplicate_jobs = Append(@, job)]
    ELSE [acc EXCEPT !.new_jobs = Append(@, job)]

RECURSIVE DedupLoop(_, _, _, _)
DedupLoop(js, i, acc, hist) ==
    IF i > Len(js) THEN acc
    ELSE DedupLoop(js, i + 1, DedupStep(acc, js[i], hist), hist)

\* JobFilter.deduplicate_jobs (excluded_jobs is its local list).
DeduplicateJobs(js, hist) ==
    DedupLoop(js, 1, [new_jobs |-> <<>>, duplicate_jobs |-> <<>>, excluded_jobs |-> <<>>], hist)

\* job.get("score", 0)
ScoreOf(job) == IF "score" \in DOMAIN job THEN job.score ELSE 0

\* The threshold test as it would be with `<=` for `<`.
PassesThresholdStrict(job, thr) == ScoreOf(job) > thr

\* The threshold test of filter_jobs: the job goes on unless its score is below.

PassesThreshold(job, thr) == ~(ScoreOf(job) < thr)

\* filter_jobs as it would be without its self.history.add.
HistoryKeep(hist, link) == hist

\* self.history.add(link)

HistoryAdd(hist, link) == hist \cup {link}

\* The iteration as it would be if it marked every job it looks at as sent.
FilterStepMarkAll(acc, job, thr) ==
    IF job.link \in acc.history THEN acc
    ELSE IF ~PassesThreshold(job, thr)
    THEN [acc EXCEPT !.history = HistoryAdd(@, job.link)]
    ELSE [filtered |-> Append(acc.filtered, job), history |-> HistoryAdd(acc.history, job.link)]

\* The iteration as it would be without the look-up in the history.
FilterStepNoHistory(acc, job, thr) ==
    IF ~PassesThreshold(job, thr) THEN acc
    ELSE [filtered |-> Append(acc.filtered, job), history |-> HistoryAdd(acc.history, job.link)]

\* One iteration of the loop of JobFilter.filter_jobs.

FilterStep(acc, job, thr) ==
    IF ~PassesThreshold(job, thr) THEN acc
    ELSE IF job.link \in acc.history THEN acc
    ELSE [filtered |-> Append(acc.filtered, job), history |-> HistoryAdd(acc.history, job.link)]

RECURSIVE FilterLoop(_, _, _, _)
FilterLoop(js, i, acc, thr) ==
    IF i > Len(js) THEN acc
    ELSE FilterLoop(js, i + 1, FilterStep(acc, js[i], thr), thr)

\* The loop of JobFilter.filter_jobs: the list returned and self.history after it.
FilterJobs(js, hist, thr) == FilterLoop(js, 1, [filtered |-> <<>>, history |-> hist], thr)

\* filter_jobs as it would be with the save inside the loop, once per kept job.
SaveCallsPerJob(filtered) == Len(filtered)

\* How often filter_jobs calls _save_history: `if filtered: self._save_history()`
\* after the loop.

SaveCalls(filtered) == IF filtered # <<>> THEN 1 ELSE 0

\* How a _save_history call can end: it returns; makedirs or open raises and the
\* file is as it was; open has truncated the file and the write raises or the
\* process is stopped, which leaves a prefix of the document.
SaveOutcomes == {"ok", "open_raises", "write_raises"}

\* The file after JobFilter._save_history with history hist written in order lst.
SavedFile(f, lst, outcome) ==
    CASE outcome = "ok" -> HistoryDocument(lst)
      [] outcome = "open_raises" -> f
      [] OTHER -> Garbage

NoLoad == [read_ok |-> TRUE, links |-> {}]

\* No direct filter_jobs call was made yet.
NoCall ==
    [made |-> FALSE, repeated |-> FALSE, fresh |-> FALSE, before |-> {}, raised |-> FALSE,
     filtered |-> <<>>, after |-> {}]

NoSave == [outcome |-> "none", old |-> {}, new |-> {}, writes |-> 0]

\* JobFilter.filter_jobs as a call: what it returns (or that it raised), self.history
\* and the file after it.  lst is the order list(self.history) takes and outcome is
\* how _save_history ends; both matter only when a job was kept.
FilterJobsCall(js, hist, thr, f, lst, outcome) ==
    LET r == FilterJobs(js, hist, thr) IN
    IF r.filtered = <<>>
    THEN [raised |-> FALSE, filtered |-> <<>>, history |-> r.history, file |-> f, save |-> NoSave]
    ELSE [raised |-> outcome # "ok",
          filtered |-> r.filtered,
          history |-> r.history,
          file |-> SavedFile(f, lst, outcome),
          save |-> [outcome |-> outcome, old |-> LoadHistory(f, TRUE), new |-> r.history,
                    writes |-> SaveCalls(r.filtered)]]

----------------------------------------------------------------------------
(* Inputs *)

L_Oslo == <<"O", "s", "l", "o">>
L_Espoo == <<"E", "s", "p", "o", "o">>

\* An email body is the sequence of its job elements.  An element is an anchor
\* <a href="href">text</a>, on its own in a table cell (kind "a") or as the title link
\* of a job card (kind "card", the anchor of class text-color-brand inside an element
\* with data-test-id="job-card"); the text that follows it in the document is
\* "company · location" (sep) or nothing, the company being a sequence of words.
\* Titles do not occur in hrefs, companies or locations.
Element(kind, href, text, tail) ==
    [kind |-> kind, href |-> href, text |-> text, sep |-> tail.sep, company |-> tail.company,
     location |-> tail.location]

NoTail == [sep |-> FALSE, company |-> <<>>, location |-> <<>>]
Tail_Acme_Oslo == [sep |-> TRUE, company |-> <<"Acme">>, location |-> L_Oslo]

\* The job anchors the emails of a run are made of: the href is the link with a
\* tracking parameter.
Anchors ==
    {Element("a", l \o <<"?", "t">>, t, Tail_Acme_Oslo) : l \in Links, t \in Titles}

AnchorSeqs == UNION {[1..n -> Anchors] : n \in 0..MaxJobs}

RECURSIVE TotalLen(_)
TotalLen(b) == IF b = <<>> THEN 0 ELSE Len(Head(b)) + TotalLen(Tail(b))

EmailBatches ==
    {b \in UNION {[1..m -> AnchorSeqs] : m \in 0..MaxEmails} : TotalLen(b) <= MaxJobs}

\* History files a JobFilter is constructed over when _load_history is looked at on
\* its own: no file, no JSON, JSON that is no object, objects without sent_jobs or
\* with a sent_jobs that is no array of strings, and arrays of strings.
LoadStrings == {<<"a">>, <<"b">>, <<"a", "b">>}

LoadFiles ==
    {NoFile, Garbage, JNull, JNum(7), JStr(<<"a">>), JArr(<<>>), JArr(<<JStr(<<"a">>)>>),
     JObj(<<>>), JObj(<<JNull>>), JObj(<<JNum(7)>>),
     JObj(<<JStr(<<>>)>>), JObj(<<JStr(<<"a">>)>>), JObj(<<JStr(<<"a", "b">>)>>),
     JObj(<<JObj(<<>>)>>), JObj(<<JObj(<<JNull>>)>>),
     JObj(<<JArr(<<JArr(<<>>)>>)>>), JObj(<<JArr(<<JStr(<<"a">>), JObj(<<>>)>>)>>)}
    \cup {HistoryDocument(q) : q \in UNION {[1..n -> LoadStrings] : n \in 0..MaxListed}}

\* History files a JobFilter that is called directly is constructed over.
FilterFiles ==
    {NoFile, Garbage, HistoryDocument(<<Link1>>), HistoryDocument(<<Link2, Link1>>)}

\* History files the first run of the pipeline can find.
PipelineFiles == {NoFile, Garbage, HistoryDocument(<<Link1>>)}

DefaultThreshold == 50

R_Python == <<"P","y","t","h","o","n">>

\* What the Stage B model call of a run gives for a job: it raises, or a report with
\* match_score 0.375 or 0.5.
MatchOutcomes ==
    {Raises} \cup {Content(JDict("match_score" :> JFrac(k))) : k \in {3, 4}}

\* What the Stage A model call of a run gives for a job: it raises, or an array
\* with one requirement.
StageAOutcomes ==
    {Raises, Content(JArr(<<JDict(("category" :> "language") @@ ("item" :> R_Python))>>))}

\* The dict d with d[k] = x set.
WithField(d, k, x) == [f \in DOMAIN d \cup {k} |-> IF f = k THEN x ELSE d[f]]

----------------------------------------------------------------------------
(* The nodes of the graph *)

\* c is a decimal digit.
IsDigit(c) == \E d \in 1..10 : Digits[d] = c

\* The last index of the run of digits that index i is in (\d+ takes all of them).
RECURSIVE DigitsEnd(_, _)
DigitsEnd(s, i) == IF i < Len(s) /\ IsDigit(s[i + 1]) THEN DigitsEnd(s, i + 1) ELSE i

\* Where https://www\.linkedin\.com/comm/jobs/view/\d+ matches in url.
JobViewMatches(url) ==
    {i \in 1..(Len(url) - 2) :
        url[i] = LinkedinOrigin /\ url[i + 1] = JobViewPath /\ IsDigit(url[i + 2])}

Min(S) == CHOOSE x \in S : \A y \in S : x <= y

\* url.split("?")[0]
RECURSIVE BeforeQuery(_)
BeforeQuery(url) ==
    IF url = <<>> \/ Head(url) = "?" THEN <<>> ELSE <<Head(url)>> \o BeforeQuery(Tail(url))

\* JobParser._clean_linkedin_url
CleanLinkedinUrl(url) ==
    IF url = <<>> THEN <<>>
    ELSE IF JobViewMatches(url) # {}
    THEN LET i == Min(JobViewMatches(url)) IN SubSeq(url, i, DigitsEnd(url, i + 2))
    ELSE IF Head(url) = JobViewPath
    THEN <<LinkedinOrigin>> \o BeforeQuery(url)
    ELSE IF \E i \in 1..Len(url) : url[i] = "?" THEN BeforeQuery(url) ELSE url

\* job_pattern matches the anchor: the href begins with the absolute job-view URL
\* and the anchor holds text.
JobPatternMatches(e) ==
    /\ Len(e.href) >= 3
    /\ e.href[1] = LinkedinOrigin
    /\ e.href[2] = JobViewPath
    /\ IsDigit(e.href[3])
    /\ e.text # <<>>

\* JobParser._extract_company_location_from_html: the first place in the document
\* where the title occurs, the first "·" from there on; the company is the last word
\* before it, the location the text after it.
ExtractCompanyLocationFromHtml(html, title) ==
    LET titled == {j \in 1..Len(html) : Contains(html[j].text, title)}
        seps == IF titled = {} THEN {} ELSE {k \in Min(titled)..Len(html) : html[k].sep}
    IN  IF seps = {} THEN [company |-> <<>>, location |-> <<>>]
        ELSE LET e == html[Min(seps)] IN
             [company |-> <<e.company[Len(e.company)]>>, location |-> Strip(e.location)]

\* The loop of JobParser._parse_table_format over the matches of job_pattern.
RECURSIVE ParseLoop(_, _, _, _)
ParseLoop(html, i, jobs_, seen_links) ==
    IF i > Len(html) THEN jobs_
    ELSE IF ~JobPatternMatches(html[i]) THEN ParseLoop(html, i + 1, jobs_, seen_links)
    ELSE LET clean_url == CleanLinkedinUrl(html[i].href)
             title == Strip(html[i].text)
         IN  IF title = <<>> \/ clean_url \in seen_links
             THEN ParseLoop(html, i + 1, jobs_, seen_links)
             ELSE LET found == ExtractCompanyLocationFromHtml(html, title) IN
                  ParseLoop(html, i + 1,
                            Append(jobs_, [title |-> title, company |-> found.company,
                                           location |-> found.location, link |-> clean_url,
                                           desc |-> <<>>]),
                            seen_links \cup {clean_url})

\* JobParser._parse_table_format
ParseTableFormat(html) == ParseLoop(html, 1, <<>>, {})

\* JobParser._parse_company_location on the text of the card's paragraph.
ParseCompanyLocation(e) ==
    IF e.sep THEN [company |-> e.company, location |-> Strip(e.location)]
    ELSE [company |-> e.company, location |-> <<>>]

\* JobParser._extract_job_from_card on a card with a title link that has an href.
ExtractJobFromCard(card) ==
    [title |-> Strip(card.text),
     company |-> ParseCompanyLocation(card).company,
     location |-> ParseCompanyLocation(card).location,
     link |-> CleanLinkedinUrl(card.href),
     desc |-> <<>>]

\* soup.find_all(attrs={"data-test-id": "job-card"}), each card extracted.
CardJobs(html) ==
    LET IsCard(e) == e.kind = "card"
        job_cards == SelectSeq(html, IsCard)
    IN  [n \in 1..Len(job_cards) |-> ExtractJobFromCard(job_cards[n])]

\* The two loops of parse_html: a job is appended unless its link was seen.
RECURSIVE SeenLoop(_, _, _, _)
SeenLoop(found, i, jobs_, seen_links) ==
    IF i > Len(found) THEN [jobs |-> jobs_, seen_links |-> seen_links]
    ELSE IF found[i].link \in seen_links THEN SeenLoop(found, i + 1, jobs_, seen_links)
    ELSE SeenLoop(found, i + 1, Append(jobs_, found[i]), seen_links \cup {found[i].link})

\* parse_html as it would be if the cards were looked at whatever the table format gave.
ParseHtmlMerging(html) ==
    LET table == SeenLoop(ParseTableFormat(html), 1, <<>>, {})
    IN  SeenLoop(CardJobs(html), 1, table.jobs, table.seen_links).jobs

\* JobParser.parse_html

ParseHtml(html) ==
    LET table == SeenLoop(ParseTableFormat(html), 1, <<>>, {})
    IN  IF table.jobs # <<>> THEN table.jobs
        ELSE SeenLoop(CardJobs(html), 1, table.jobs, table.seen_links).jobs

RECURSIVE ParseAll(_, _, _)
ParseAll(emails, i, all) ==
    IF i > Len(emails) THEN all
    ELSE ParseAll(emails, i + 1, all \o ParseHtml(emails[i]))

\* The loop as it would be if an entry that is not valid ended it.
RECURSIVE ValidateLoopStopping(_, _, _)
ValidateLoopStopping(requirements, i, validated) ==
    IF i > Len(requirements) THEN validated
    ELSE LET req == requirements[i] IN
         IF req.t = "dict" /\ "item" \in DOMAIN req.v
         THEN ValidateLoopStopping(requirements, i + 1,
                           Append(validated, [category |-> Get(req.v, "category", "other"),
                                              item |-> req.v["item"],
                                              level |-> Get(req.v, "level", ""),
                                              priority |-> Get(req.v, "priority", "must")]))
         ELSE validated

\* The loop of JDExtractor._parse_response over the entries of the array.

RECURSIVE ValidateLoop(_, _, _)
ValidateLoop(requirements, i, validated) ==
    IF i > Len(requirements) THEN validated
    ELSE LET req == requirements[i] IN
         IF req.t = "dict" /\ "item" \in DOMAIN req.v
         THEN ValidateLoop(requirements, i + 1,
                           Append(validated, [category |-> Get(req.v, "category", "other"),
                                              item |-> req.v["item"],
                                              level |-> Get(req.v, "level", ""),
                                              priority |-> Get(req.v, "priority", "must")]))
         ELSE ValidateLoop(requirements, i + 1, validated)

\* JDExtractor._parse_response on the decoded content: [] when json.loads raised or
\* the document is no list.
ExtractParseResponse(body) ==
    IF body.t # "arr" THEN <<>> ELSE ValidateLoop(body.v, 1, <<>>)

\* extract_requirements as it would be without the fallback of its except branch.
ExtractRequirementsNoFallback(job, r) ==
    IF r.k = "raises" THEN <<>> ELSE ExtractParseResponse(r.body)

\* JDExtractor.extract_requirements

ExtractRequirements(job, r) ==
    IF r.k = "raises"
    THEN <<[category |-> "role", item |-> job.title, level |-> "", priority |-> "must"]>>
    ELSE ExtractParseResponse(r.body)

\* int(s) on a string: [raised, n].  Blanks around the number and one sign are
\* accepted; what is left must be decimal digits.
IntOf(s) ==
    LET t == Strip(s)
        signed == t # <<>> /\ Head(t) \in {"+", "-"}
        digits == IF signed THEN Tail(t) ELSE t
    IN  IF IsDigits(digits)
        THEN [raised |-> FALSE,
              n |-> IF signed /\ Head(t) = "-" THEN -DecimalValue(digits) ELSE DecimalValue(digits)]
        ELSE [raised |-> TRUE, n |-> 0]

\* AppConfig.from_env: match_threshold=int(os.getenv("MATCH_THRESHOLD", "50"))
MatchThreshold(e) == IntOf(GetEnv(e, <<"5", "0">>))

\* float(x) on a decoded JSON value: [raised, x].  Of strings, those of digits only
\* and those that are no number at all are told apart.
FloatOf(x) ==
    CASE x.t = "frac" -> [raised |-> FALSE, x |-> x]
      [] x.t = "nonfinite" -> [raised |-> FALSE, x |-> x]
      [] x.t = "num" -> [raised |-> FALSE, x |-> JFrac(8 * x.v)]
      [] x.t = "bool" -> [raised |-> FALSE, x |-> JFrac(IF x.v THEN 8 ELSE 0)]
      [] x.t = "str" /\ IsDigits(x.v) -> [raised |-> FALSE, x |-> JFrac(8 * DecimalValue(x.v))]
      [] OTHER -> [raised |-> TRUE, x |-> JNum(0)]

\* The report both except branches of the matcher give.
ZeroResult ==
    [match_score |-> JNum(0), strong_matches |-> JArr(<<>>), partial_matches |-> JArr(<<>>),
     gaps |-> JArr(<<>>), cv_suggestions |-> JArr(<<>>)]

\* EnhancedJobMatcher._parse_response on the decoded content.
MatchParseResponse(body) ==
    IF body.t # "dict" THEN ZeroResult                  \* json.loads or result.get raised
    ELSE LET score == FloatOf(Get(body.v, "match_score", JNum(0))) IN
         IF score.raised THEN ZeroResult
         ELSE [match_score |-> score.x,
               strong_matches |-> Get(body.v, "strong_matches", JArr(<<>>)),
               partial_matches |-> Get(body.v, "partial_matches", JArr(<<>>)),
               gaps |-> Get(body.v, "gaps", JArr(<<>>)),
               cv_suggestions |-> Get(body.v, "cv_suggestions", JArr(<<>>))]

\* int(x * 100): [raised, n].  int() rounds toward zero and raises on NaN and
\* Infinity.
IntTimes100(x) ==
    CASE x.t = "num" -> [raised |-> FALSE, n |-> 100 * x.v]
      [] x.t = "frac" -> [raised |-> FALSE,
                          n |-> IF x.v >= 0 THEN (25 * x.v) \div 2 ELSE -((25 * (-x.v)) \div 2)]
      [] OTHER -> [raised |-> TRUE, n |-> 0]

\* len(x) on a decoded JSON value: [raised, n].
LenOf(x) ==
    CASE x.t \in {"arr", "str"} -> [raised |-> FALSE, n |-> Len(x.v)]
      [] x.t = "dict" -> [raised |-> FALSE, n |-> Cardinality(DOMAIN x.v)]
      [] OTHER -> [raised |-> TRUE, n |-> 0]

\* EnhancedJobMatcher._generate_summary: the parts that ", ".join puts together, or
\* "No match info" when there is none.
GenerateSummary(result) ==
    LET NonZero(part) == part.n # 0
        parts == SelectSeq(<<[n |-> LenOf(result.strong_matches).n, what |-> "strong match(es)"],
                             [n |-> LenOf(result.partial_matches).n, what |-> "partial match(es)"],
                             [n |-> LenOf(result.gaps).n, what |-> "gap(s)"]>>, NonZero)
    IN  [text |-> IF parts = <<>> THEN "No match info" ELSE "parts", parts |-> parts]

\* "Enhanced matching error: ..." of the except branch of match_job.
ErrorReasons == [text |-> "Enhanced matching error", parts |-> <<>>]

\* The except branch of EnhancedJobMatcher.match_job.
MatchFallback(job) ==
    WithField(WithField(WithField(job, "score", 0), "reasons", ErrorReasons),
              "enhanced_result", ZeroResult)

\* EnhancedJobMatcher.match_job
MatchJob(job, r) ==
    IF r.k = "raises" THEN MatchFallback(job)
    ELSE LET result == MatchParseResponse(r.body)
             score == IntTimes100(result.match_score)
         IN  IF \/ score.raised
                \/ LenOf(result.strong_matches).raised
                \/ LenOf(result.partial_matches).raised
                \/ LenOf(result.gaps).raised
             THEN MatchFallback(job)
             ELSE WithField(WithField(WithField(job, "score", score.n),
                                      "reasons", GenerateSummary(result)),
                            "enhanced_result", result)

LinksOf(js) == {js[i].link : i \in 1..Len(js)}

ReadEmails ==
    /\ pc = "read_emails"
    /\ \E b \in EmailBatches : raw_emails' = b
    /\ pc' = "parse_jobs"
    /\ UNCHANGED <<jobs, duplicate_jobs, filtered_jobs, notifications_sent, threshold, file,
                   history, loaded, excluded_count, all_jobs, last_save, io_failed,
                   delivered, notified, pre_history, run, last_call, procs, reply, env, clean_call>>

ParseJobs ==
    /\ pc = "parse_jobs"
    /\ jobs' = ParseAll(raw_emails, 1, <<>>)
    /\ pc' = "deduplicate_jobs"
    /\ UNCHANGED <<raw_emails, duplicate_jobs, filtered_jobs, notifications_sent, threshold,
                   file, history, loaded, excluded_count, all_jobs, last_save, io_failed,
                   delivered, notified, pre_history, run, last_call, procs, reply, env, clean_call>>

\* The deduplicate_jobs node as it would be if it called _mark_jobs_as_processed on
\* the new jobs (the node's note tells not to).
DeduplicateJobsNodeMarking ==
    /\ pc = "deduplicate_jobs"
    /\ \E read_ok \in BOOLEAN :
         LET h == LoadHistory(file, read_ok)
             r == DeduplicateJobs(jobs, h)
             marked == h \cup LinksOf(r.new_jobs)
         IN  /\ loaded' = [read_ok |-> read_ok, links |-> h]
             /\ history' = marked
             /\ \E lst \in Orderings(marked) : file' = SavedFile(file, lst, "ok")
             /\ all_jobs' = jobs
             /\ excluded_count' = Len(jobs) - Len(r.new_jobs) - Len(r.duplicate_jobs)
             /\ jobs' = r.new_jobs
             /\ duplicate_jobs' = r.duplicate_jobs
             /\ io_failed' = (io_failed \/ (~read_ok /\ file.t # "nofile"))
    /\ pc' = "extract_requirements"
    /\ UNCHANGED <<raw_emails, filtered_jobs, notifications_sent, threshold, last_save,
                   delivered, notified, pre_history, run, last_call, procs, reply, env, clean_call>>

DeduplicateJobsNode ==
    /\ pc = "deduplicate_jobs"
    /\ \E read_ok \in BOOLEAN :
         LET h == LoadHistory(file, read_ok)
             r == DeduplicateJobs(jobs, h)
         IN  /\ loaded' = [read_ok |-> read_ok, links |-> h]
             /\ history' = h
             /\ all_jobs' = jobs
             /\ excluded_count' = Len(jobs) - Len(r.new_jobs) - Len(r.duplicate_jobs)
             /\ jobs' = r.new_jobs
             /\ duplicate_jobs' = r.duplicate_jobs
             /\ io_failed' = (io_failed \/ (~read_ok /\ file.t # "nofile"))
    /\ pc' = "extract_requirements"
    /\ UNCHANGED <<raw_emails, filtered_jobs, notifications_sent, threshold, file, last_save,
                   delivered, notified, pre_history, run, last_call, procs, reply, env, clean_call>>

\* The extract_requirements node, the model call for job i giving o[i].
ExtractRequirementsWith(o) ==
    /\ pc = "extract_requirements"
    /\ jobs' = [i \in 1..Len(jobs) |->
                  IF "requirements" \in DOMAIN jobs[i] /\ jobs[i].requirements # <<>>
                  THEN jobs[i]
                  ELSE WithField(jobs[i], "requirements", ExtractRequirements(jobs[i], o[i]))]
    /\ pc' = "match_jobs"
    /\ UNCHANGED <<raw_emails, duplicate_jobs, filtered_jobs, notifications_sent, threshold,
                   file, history, loaded, excluded_count, all_jobs, last_save, io_failed,
                   delivered, notified, pre_history, run, last_call, procs, reply, env, clean_call>>

ExtractRequirementsNode ==
    \E o \in [1..Len(jobs) -> StageAOutcomes] : ExtractRequirementsWith(o)

\* The match_jobs node as it would be if a job whose model call raised were left out
\* of the list.
MatchJobsWithDropping(o) ==
    /\ pc = "match_jobs"
    /\ LET Answered(i) == o[i].k # "raises"
           kept == SelectSeq([i \in 1..Len(jobs) |-> i], Answered)
       IN  jobs' = [n \in 1..Len(kept) |-> MatchJob(jobs[kept[n]], o[kept[n]])]
    /\ pc' = "filter_jobs"
    /\ UNCHANGED <<raw_emails, duplicate_jobs, filtered_jobs, notifications_sent, threshold,
                   file, history, loaded, excluded_count, all_jobs, last_save, io_failed,
                   delivered, notified, pre_history, run, last_call, procs, reply, env, clean_call>>

\* The match_jobs node, the model call for job i giving o[i].
MatchJobsWith(o) ==
    /\ pc = "match_jobs"
    /\ jobs' = [i \in 1..Len(jobs) |-> MatchJob(jobs[i], o[i])]
    /\ pc' = "filter_jobs"
    /\ UNCHANGED <<raw_emails, duplicate_jobs, filtered_jobs, notifications_sent, threshold,
                   file, history, loaded, excluded_count, all_jobs, last_save, io_failed,
                   delivered, notified, pre_history, run, last_call, procs, reply, env, clean_call>>

MatchJobsNode ==
    \E o \in [1..Len(jobs) -> MatchOutcomes] : MatchJobsWith(o)

\* The filter_jobs node.  When _save_history raises, the exception leaves the node
\* before state["filtered_jobs"] is set and the run ends.
FilterJobsNode ==
    /\ pc = "filter_jobs"
    /\ \E read_ok \in BOOLEAN, outcome \in SaveOutcomes :
         LET h == LoadHistory(file, read_ok) IN
         \E lst \in Orderings(FilterJobs(jobs, h, threshold).history) :
            LET c == FilterJobsCall(jobs, h, threshold, file, lst, outcome) IN
            /\ loaded' = [read_ok |-> read_ok, links |-> h]
            /\ history' = c.history
            /\ file' = c.file
            /\ last_save' = c.save
            /\ filtered_jobs' = IF c.raised THEN filtered_jobs ELSE c.filtered
            /\ pc' = IF c.raised THEN "RAISED" ELSE "notify_jobs"
            /\ io_failed' = (io_failed \/ c.raised \/ (~read_ok /\ file.t # "nofile"))
    /\ UNCHANGED <<raw_emails, jobs, duplicate_jobs, notifications_sent, threshold,
                   excluded_count, all_jobs, delivered, notified, pre_history, run, last_call, procs, reply, env, clean_call>>

\* The notify_jobs node as it would be if it emptied filtered_jobs once sent.
NotifyJobsNodeClearing ==
    /\ pc = "notify_jobs"
    /\ \E sent \in BOOLEAN :
         /\ notifications_sent' = IF filtered_jobs # <<>> /\ sent THEN Len(filtered_jobs) ELSE 0
         /\ notified' = IF sent THEN notified \cup LinksOf(filtered_jobs) ELSE notified
         /\ filtered_jobs' = IF sent THEN <<>> ELSE filtered_jobs
    /\ pc' = "END"
    /\ UNCHANGED <<raw_emails, jobs, duplicate_jobs, threshold, file, history,
                   loaded, excluded_count, all_jobs, last_save, io_failed, delivered,
                   pre_history, run, last_call, procs, reply, env, clean_call>>

\* The notify_jobs node; sent is whether send_batch_notification returned True
\* (it returned False or raised otherwise).
NotifyJobsNode ==
    /\ pc = "notify_jobs"
    /\ \E sent \in BOOLEAN :
         /\ notifications_sent' = IF filtered_jobs # <<>> /\ sent THEN Len(filtered_jobs) ELSE 0
         /\ notified' = IF sent THEN notified \cup LinksOf(filtered_jobs) ELSE notified
    /\ pc' = "END"
    /\ UNCHANGED <<raw_emails, jobs, duplicate_jobs, filtered_jobs, threshold, file, history,
                   loaded, excluded_count, all_jobs, last_save, io_failed, delivered,
                   pre_history, run, last_call, procs, reply, env, clean_call>>

\* main() is run again with a fresh initial_state.
NextRun ==
    /\ pc \in {"END", "RAISED"}
    /\ run < MaxRuns
    /\ pc' = "read_emails"
    /\ raw_emails' = <<>>
    /\ jobs' = <<>>
    /\ duplicate_jobs' = <<>>
    /\ filtered_jobs' = <<>>
    /\ notifications_sent' = 0
    /\ history' = {}
    /\ loaded' = NoLoad
    /\ excluded_count' = 0
    /\ all_jobs' = <<>>
    /\ last_save' = NoSave
    /\ delivered' = delivered \cup LinksOf(filtered_jobs)
    /\ UNCHANGED <<threshold, file, io_failed, notified, pre_history, last_call, procs, reply, env, clean_call>>
    /\ run' = run + 1

Init ==
    /\ pc = "read_emails"
    /\ raw_emails = <<>>
    /\ jobs = <<>>
    /\ duplicate_jobs = <<>>
    /\ filtered_jobs = <<>>
    /\ notifications_sent = 0
    /\ threshold = DefaultThreshold
    /\ file \in PipelineFiles
    /\ history = {}
    /\ loaded = NoLoad
    /\ excluded_count = 0
    /\ all_jobs = <<>>
    /\ last_save = NoSave
    /\ io_failed = FALSE
    /\ delivered = {}
    /\ notified = {}
    /\ pre_history = LoadHistory(file, TRUE)
    /\ run = 1
    /\ last_call = NoCall
    /\ procs = <<>>
    /\ reply = NoReply
    /\ env = NoEnv
    /\ clean_call = NoUrl

Next ==
    \/ ReadEmails
    \/ ParseJobs
    \/ DeduplicateJobsNode
    \/ ExtractRequirementsNode
    \/ MatchJobsNode
    \/ FilterJobsNode
    \/ NotifyJobsNode
    \/ NextRun

Spec == Init /\ [][Next]_vars

----------------------------------------------------------------------------
(* A JobFilter object used directly: constructed over a history file, then   *)
(* filter_jobs called on one job list, again and again, with a new JobFilter *)
(* constructed over the same file in between or not.                        *)

Thresholds == {0, 50}

\* Jobs handed to filter_jobs: with a score, or without one.
FilterInputJobs ==
    {[title |-> T_Engineering, link |-> l] : l \in Links}
    \cup {[title |-> T_Engineering, link |-> l, score |-> n] : l \in Links, n \in {49, 50, 51}}

FilterInputLists == UNION {[1..n -> FilterInputJobs] : n \in 0..MaxJobs}

\* JobFilter.__init__
NewJobFilter ==
    /\ pc \in {"no_instance", "fresh", "used"}
    /\ \E read_ok \in BOOLEAN :
         /\ loaded' = [read_ok |-> read_ok, links |-> LoadHistory(file, read_ok)]
         /\ history' = LoadHistory(file, read_ok)
         /\ io_failed' = (io_failed \/ (~read_ok /\ file.t # "nofile"))
    /\ pc' = "fresh"
    /\ UNCHANGED <<raw_emails, jobs, duplicate_jobs, filtered_jobs, notifications_sent,
                   threshold, file, excluded_count, all_jobs, last_save, delivered,
                   notified, pre_history, run, last_call, procs, reply, env, clean_call>>

\* job_filter.filter_jobs(jobs) on the live JobFilter
CallFilterJobs ==
    /\ pc \in {"fresh", "used"}
    /\ pc' = "used"
    /\ \E outcome \in SaveOutcomes :
         \E lst \in Orderings(FilterJobs(jobs, history, threshold).history) :
            LET c == FilterJobsCall(jobs, history, threshold, file, lst, outcome) IN
            /\ history' = c.history
            /\ file' = c.file
            /\ last_save' = c.save
            /\ io_failed' = (io_failed \/ c.raised)
            /\ last_call' = [made |-> TRUE,
                             repeated |-> last_call.made,
                             fresh |-> pc = "fresh",
                             before |-> history,
                             raised |-> c.raised,
                             filtered |-> IF c.raised THEN <<>> ELSE c.filtered,
                             after |-> c.history]
    /\ UNCHANGED <<raw_emails, jobs, duplicate_jobs, filtered_jobs, notifications_sent,
                   threshold, loaded, excluded_count, all_jobs, delivered, notified,
                   pre_history, run, procs, reply, env, clean_call>>

InitFilter ==
    /\ pc = "no_instance"
    /\ raw_emails = <<>>
    /\ jobs \in FilterInputLists
    /\ duplicate_jobs = <<>>
    /\ filtered_jobs = <<>>
    /\ notifications_sent = 0
    /\ threshold \in Thresholds
    /\ file \in FilterFiles
    /\ history = {}
    /\ loaded = NoLoad
    /\ excluded_count = 0
    /\ all_jobs = <<>>
    /\ last_save = NoSave
    /\ io_failed = FALSE
    /\ delivered = {}
    /\ notified = {}
    /\ pre_history = LoadHistory(file, TRUE)
    /\ run = 1
    /\ last_call = NoCall
    /\ procs = <<>>
    /\ reply = NoReply
    /\ env = NoEnv
    /\ clean_call = NoUrl

NextFilter ==
    \/ NewJobFilter
    \/ CallFilterJobs

SpecFilter == InitFilter /\ [][NextFilter]_vars

----------------------------------------------------------------------------
(* A JobFilter constructed over a history file, and nothing else. *)

InitLoad ==
    /\ pc = "no_instance"
    /\ raw_emails = <<>>
    /\ jobs = <<>>
    /\ duplicate_jobs = <<>>
    /\ filtered_jobs = <<>>
    /\ notifications_sent = 0
    /\ threshold = DefaultThreshold
    /\ file \in LoadFiles
    /\ history = {}
    /\ loaded = NoLoad
    /\ excluded_count = 0
    /\ all_jobs = <<>>
    /\ last_save = NoSave
    /\ io_failed = FALSE
    /\ delivered = {}
    /\ notified = {}
    /\ pre_history = LoadHistory(file, TRUE)
    /\ run = 1
    /\ last_call = NoCall
    /\ procs = <<>>
    /\ reply = NoReply
    /\ env = NoEnv
    /\ clean_call = NoUrl

NextLoad == NewJobFilter

SpecLoad == InitLoad /\ [][NextLoad]_vars

----------------------------------------------------------------------------
(* Two runs of main() at the same time, as two processes over one history    *)
(* file.  Each run has its own AgentState and its own JobFilter objects; the *)
(* file is what they share.  A run's steps are cut where it touches the      *)
(* file: the read in each JobFilter(), the open(path, "w") of _save_history, *)
(* which truncates, and the write of the document.                           *)

Runs == {1, 2}

\* state["jobs"] of a run after its parse_jobs.
ConcurrentJobLists ==
    UNION {[1..n -> {[title |-> T_Engineering, link |-> l] : l \in Links}] :
             n \in 0..MaxConcurrentJobs}

ConcurrentFiles == {NoFile, HistoryDocument(<<Link1>>)}

\* The deduplicate_jobs node of run p.
ConcurrentDeduplicate(p) ==
    /\ procs[p].pc = "deduplicate_jobs"
    /\ LET h == LoadHistory(file, TRUE)
           r == DeduplicateJobs(procs[p].jobs, h)
       IN  procs' = [procs EXCEPT ![p] = [@ EXCEPT !.pc = "extract_requirements",
                                                   !.history = h,
                                                   !.jobs = r.new_jobs,
                                                   !.duplicate_jobs = r.duplicate_jobs]]
    /\ UNCHANGED <<pc, raw_emails, jobs, duplicate_jobs, filtered_jobs, notifications_sent,
                   threshold, file, history, loaded, excluded_count, all_jobs, last_save,
                   io_failed, delivered, notified, pre_history, run, last_call,
                   reply, env, clean_call>>

\* The extract_requirements and match_jobs nodes of run p.
ConcurrentScore(p) ==
    /\ procs[p].pc = "extract_requirements"
    /\ \E a \in [1..Len(procs[p].jobs) -> StageAOutcomes],
          b \in [1..Len(procs[p].jobs) -> MatchOutcomes] :
         procs' = [procs EXCEPT ![p] = [@ EXCEPT
                     !.pc = "filter_jobs",
                     !.jobs = [i \in 1..Len(procs[p].jobs) |->
                                 MatchJob(WithField(procs[p].jobs[i], "requirements",
                                                    ExtractRequirements(procs[p].jobs[i], a[i])),
                                          b[i])]]]
    /\ UNCHANGED <<pc, raw_emails, jobs, duplicate_jobs, filtered_jobs, notifications_sent,
                   threshold, file, history, loaded, excluded_count, all_jobs, last_save,
                   io_failed, delivered, notified, pre_history, run, last_call,
                   reply, env, clean_call>>

\* The filter_jobs node of run p up to the loop of JobFilter.filter_jobs: the new
\* JobFilter reads the file, the loop runs on the set it loaded.
ConcurrentFilterLoad(p) ==
    /\ procs[p].pc = "filter_jobs"
    /\ LET r == FilterJobs(procs[p].jobs, LoadHistory(file, TRUE), threshold)
       IN  procs' = [procs EXCEPT ![p] = [@ EXCEPT
                       !.pc = IF r.filtered = <<>> THEN "notify_jobs" ELSE "save_open",
                       !.history = r.history,
                       !.filtered_jobs = r.filtered]]
    /\ UNCHANGED <<pc, raw_emails, jobs, duplicate_jobs, filtered_jobs, notifications_sent,
                   threshold, file, history, loaded, excluded_count, all_jobs, last_save,
                   io_failed, delivered, notified, pre_history, run, last_call,
                   reply, env, clean_call>>

\* _save_history of run p: open(self.history_path, "w") truncates the file.
ConcurrentSaveOpen(p) ==
    /\ procs[p].pc = "save_open"
    /\ file' = Garbage
    /\ procs' = [procs EXCEPT ![p] = [@ EXCEPT !.pc = "save_write"]]
    /\ UNCHANGED <<pc, raw_emails, jobs, duplicate_jobs, filtered_jobs, notifications_sent,
                   threshold, history, loaded, excluded_count, all_jobs, last_save,
                   io_failed, delivered, notified, pre_history, run, last_call,
                   reply, env, clean_call>>

\* _save_history of run p: json.dump and the close of the file.
ConcurrentSaveWrite(p) ==
    /\ procs[p].pc = "save_write"
    /\ \E lst \in Orderings(procs[p].history) : file' = HistoryDocument(lst)
    /\ procs' = [procs EXCEPT ![p] = [@ EXCEPT !.pc = "notify_jobs"]]
    /\ UNCHANGED <<pc, raw_emails, jobs, duplicate_jobs, filtered_jobs, notifications_sent,
                   threshold, history, loaded, excluded_count, all_jobs, last_save,
                   io_failed, delivered, notified, pre_history, run, last_call,
                   reply, env, clean_call>>

\* The notify_jobs node of run p.
ConcurrentNotify(p) ==
    /\ procs[p].pc = "notify_jobs"
    /\ procs' = [procs EXCEPT ![p] = [@ EXCEPT !.pc = "END"]]
    /\ UNCHANGED <<pc, raw_emails, jobs, duplicate_jobs, filtered_jobs, notifications_sent,
                   threshold, file, history, loaded, excluded_count, all_jobs, last_save,
                   io_failed, delivered, notified, pre_history, run, last_call,
                   reply, env, clean_call>>

InitConcurrent ==
    /\ pc = "concurrent"
    /\ raw_emails = <<>>
    /\ jobs = <<>>
    /\ duplicate_jobs = <<>>
    /\ filtered_jobs = <<>>
    /\ notifications_sent = 0
    /\ threshold = DefaultThreshold
    /\ file \in ConcurrentFiles
    /\ history = {}
    /\ loaded = NoLoad
    /\ excluded_count = 0
    /\ all_jobs = <<>>
    /\ last_save = NoSave
    /\ io_failed = FALSE
    /\ delivered = {}
    /\ notified = {}
    /\ pre_history = LoadHistory(file, TRUE)
    /\ run = 1
    /\ last_call = NoCall
    /\ reply = NoReply
    /\ env = NoEnv
    /\ clean_call = NoUrl
    /\ procs \in [Runs -> {[pc |-> "deduplicate_jobs", jobs |-> js, duplicate_jobs |-> <<>>,
                            filtered_jobs |-> <<>>, history |-> {}] : js \in ConcurrentJobLists}]

NextConcurrent ==
    \E p \in Runs :
        \/ ConcurrentDeduplicate(p)
        \/ ConcurrentScore(p)
        \/ ConcurrentFilterLoad(p)
        \/ ConcurrentSaveOpen(p)
        \/ ConcurrentSaveWrite(p)
        \/ ConcurrentNotify(p)

SpecConcurrent == InitConcurrent /\ [][NextConcurrent]_vars

----------------------------------------------------------------------------
(* EnhancedJobMatcher.match_job on one job, for what the model call can give. *)

E_Requirement == JDict("requirement" :> R_Python)

\* match_score members of a report: none, numbers inside and outside [0, 1], true,
\* a string of digits, and values that are no number.
ScoreMembers ==
    {<<>>}
    \cup {"match_score" :> v :
            v \in {JFrac(k) : k \in {-4, -1, 0, 3, 4, 8, 9, 12}}
                  \cup {JNum(2), JBool(TRUE), JStr(<<"1">>), JStr(<<"h","i","g","h">>),
                        JNull, NonFinite}}

StrongMembers ==
    {<<>>}
    \cup {"strong_matches" :> v :
            v \in {JArr(<<>>), JArr(<<E_Requirement>>), JArr(<<E_Requirement, E_Requirement>>),
                   JNum(7)}}

PartialMembers == {<<>>, "partial_matches" :> JArr(<<E_Requirement>>)}

GapMembers ==
    {<<>>} \cup {"gaps" :> v : v \in {JArr(<<E_Requirement>>), JStr(<<"a", "b">>)}}

MatchReplies ==
    {Raises}
    \cup {Content(b) : b \in {Garbage, JNull, JNum(7), JStr(<<"a">>), JArr(<<>>)}}
    \cup {Content(JDict(ms @@ st @@ pa @@ gp)) :
            ms \in ScoreMembers, st \in StrongMembers, pa \in PartialMembers, gp \in GapMembers}

\* Jobs as Stage A leaves them.
MatchInputJobs ==
    {WithField([title |-> T_Engineering, link |-> Link1], "requirements",
               ExtractRequirements([title |-> T_Engineering, link |-> Link1], o)) :
        o \in StageAOutcomes}

\* matcher.match_job(job)
MatchJobCall ==
    /\ pc = "match_job"
    /\ jobs' = <<MatchJob(jobs[1], reply)>>
    /\ pc' = "matched"
    /\ UNCHANGED <<raw_emails, duplicate_jobs, filtered_jobs, notifications_sent, threshold,
                   file, history, loaded, excluded_count, all_jobs, last_save, io_failed,
                   delivered, notified, pre_history, run, last_call, procs, reply, env, clean_call>>

InitMatch ==
    /\ pc = "match_job"
    /\ raw_emails = <<>>
    /\ \E job \in MatchInputJobs : jobs = <<job>>
    /\ duplicate_jobs = <<>>
    /\ filtered_jobs = <<>>
    /\ notifications_sent = 0
    /\ threshold = DefaultThreshold
    /\ file = NoFile
    /\ history = {}
    /\ loaded = NoLoad
    /\ excluded_count = 0
    /\ all_jobs = <<>>
    /\ last_save = NoSave
    /\ io_failed = FALSE
    /\ delivered = {}
    /\ notified = {}
    /\ pre_history = {}
    /\ run = 1
    /\ last_call = NoCall
    /\ procs = <<>>
    /\ reply \in MatchReplies
    /\ env = NoEnv
    /\ clean_call = NoUrl

NextMatch == MatchJobCall

SpecMatch == InitMatch /\ [][NextMatch]_vars

----------------------------------------------------------------------------
(* The extract_requirements and match_jobs nodes on a list of new jobs, for a *)
(* pattern of replies of the two model calls fixed per job: reply.a[i] is     *)
(* what the Stage A call for job i gives, reply.b[i] the Stage B call.        *)

StageJobLists ==
    UNION {[1..n -> {[title |-> T_Engineering, link |-> l] : l \in Links}] : n \in 0..MaxJobs}

ExtractPattern ==
    StageAOutcomes \cup {Content(Garbage)}

MatchPattern ==
    MatchOutcomes
    \cup {Content(Garbage),
          Content(JDict(("match_score" :> JFrac(4)) @@ ("strong_matches" :> JNum(7))))}

ExtractRequirementsGiven == ExtractRequirementsWith(reply.a)

MatchJobsGiven == MatchJobsWith(reply.b)

InitStages ==
    /\ pc = "extract_requirements"
    /\ raw_emails = <<>>
    /\ jobs \in StageJobLists
    /\ duplicate_jobs = <<>>
    /\ filtered_jobs = <<>>
    /\ notifications_sent = 0
    /\ threshold = DefaultThreshold
    /\ file = NoFile
    /\ history = {}
    /\ loaded = NoLoad
    /\ excluded_count = 0
    /\ all_jobs = jobs
    /\ last_save = NoSave
    /\ io_failed = FALSE
    /\ delivered = {}
    /\ notified = {}
    /\ pre_history = {}
    /\ run = 1
    /\ last_call = NoCall
    /\ procs = <<>>
    /\ reply \in [a : [1..Len(jobs) -> ExtractPattern], b : [1..Len(jobs) -> MatchPattern]]
    /\ env = NoEnv
    /\ clean_call = NoUrl

NextStages ==
    \/ ExtractRequirementsGiven
    \/ MatchJobsGiven

SpecStages == InitStages /\ [][NextStages]_vars

----------------------------------------------------------------------------
(* A run from the import of config.py on, for what MATCH_THRESHOLD is set to *)
(* and for a pattern of replies of the two model calls: the threshold is    *)
(* read from the environment, the new jobs are scored and filtered.         *)

\* MATCH_THRESHOLD: not set, numbers below, at and above zero, with a sign or blanks
\* around, and strings int() rejects.
EnvThresholds ==
    {NoEnv} \cup {EnvSet(v) : v \in {<<"0">>, <<"1">>, <<"5", "0">>, <<"-", "1">>, <<"+", "5">>,
                                      <<" ", "7", " ">>, <<>>, <<"a", "b", "c">>, <<"5", ".", "0">>}}

ThresholdMatchPattern ==
    {Raises, Content(Garbage), Content(JDict("match_score" :> JFrac(4)))}

\* The import of src.config: AppConfig.from_env() reads the threshold; a value int()
\* rejects ends the program before any run.
LoadConfig ==
    /\ pc = "config"
    /\ LET t == MatchThreshold(env) IN
       /\ threshold' = IF t.raised THEN threshold ELSE t.n
       /\ pc' = IF t.raised THEN "RAISED" ELSE "extract_requirements"
    /\ UNCHANGED <<raw_emails, jobs, duplicate_jobs, filtered_jobs, notifications_sent, file,
                   history, loaded, excluded_count, all_jobs, last_save, io_failed,
                   delivered, notified, pre_history, run, last_call, procs, reply, env, clean_call>>

InitThreshold ==
    /\ pc = "config"
    /\ raw_emails = <<>>
    /\ jobs \in StageJobLists
    /\ duplicate_jobs = <<>>
    /\ filtered_jobs = <<>>
    /\ notifications_sent = 0
    /\ threshold = DefaultThreshold
    /\ file = NoFile
    /\ history = {}
    /\ loaded = NoLoad
    /\ excluded_count = 0
    /\ all_jobs = jobs
    /\ last_save = NoSave
    /\ io_failed = FALSE
    /\ delivered = {}
    /\ notified = {}
    /\ pre_history = {}
    /\ run = 1
    /\ last_call = NoCall
    /\ procs = <<>>
    /\ reply \in [a : [1..Len(jobs) -> StageAOutcomes], b : [1..Len(jobs) -> ThresholdMatchPattern]]
    /\ env \in EnvThresholds
    /\ clean_call = NoUrl

NextThreshold ==
    \/ LoadConfig
    \/ ExtractRequirementsGiven
    \/ MatchJobsGiven
    \/ FilterJobsNode
    \/ NotifyJobsNode

SpecThreshold == InitThreshold /\ [][NextThreshold]_vars

----------------------------------------------------------------------------
(* JDExtractor.extract_requirements on one job, for what the model call can give. *)

R_Go == <<"G", "o">>

\* Entries of the array: objects with all four keys, with item only, without item,
\* with no key, and values that are no object.
ExtractEntries ==
    {JDict(("category" :> "language") @@ ("item" :> R_Python) @@ ("level" :> "3+ years")
           @@ ("priority" :> "preferred")),
     JDict("item" :> R_Go),
     JDict(("category" :> "framework") @@ ("level" :> "proficient")),
     JDict(<<>>),
     JNum(5), JStr(<<"i", "t", "e", "m">>), JNull, JArr(<<>>)}

ExtractReplies ==
    {Raises}
    \cup {Content(b) : b \in {Garbage, JNull, JNum(7), JBool(TRUE), JStr(<<"a">>),
                              JDict("item" :> R_Python)}}
    \cup {Content(JArr(q)) : q \in UNION {[1..n -> ExtractEntries] : n \in 0..MaxEntries}}

ExtractInputJobs == {[title |-> t, link |-> Link1] : t \in {T_Engineering, T_DataAnalyst}}

\* job["requirements"] = extractor.extract_requirements(job)
ExtractRequirementsCall ==
    /\ pc = "extract"
    /\ jobs' = <<WithField(jobs[1], "requirements", ExtractRequirements(jobs[1], reply))>>
    /\ pc' = "extracted"
    /\ UNCHANGED <<raw_emails, duplicate_jobs, filtered_jobs, notifications_sent, threshold,
                   file, history, loaded, excluded_count, all_jobs, last_save, io_failed,
                   delivered, notified, pre_history, run, last_call, procs, reply, env, clean_call>>

InitExtract ==
    /\ pc = "extract"
    /\ raw_emails = <<>>
    /\ \E job \in ExtractInputJobs : jobs = <<job>>
    /\ duplicate_jobs = <<>>
    /\ filtered_jobs = <<>>
    /\ notifications_sent = 0
    /\ threshold = DefaultThreshold
    /\ file = NoFile
    /\ history = {}
    /\ loaded = NoLoad
    /\ excluded_count = 0
    /\ all_jobs = <<>>
    /\ last_save = NoSave
    /\ io_failed = FALSE
    /\ delivered = {}
    /\ notified = {}
    /\ pre_history = {}
    /\ run = 1
    /\ last_call = NoCall
    /\ procs = <<>>
    /\ reply \in ExtractReplies
    /\ env = NoEnv
    /\ clean_call = NoUrl

NextExtract == ExtractRequirementsCall

SpecExtract == InitExtract /\ [][NextExtract]_vars

----------------------------------------------------------------------------
(* JobFilter.deduplicate_jobs called directly on a list of postings, for      *)
(* titles with and without each keyword, in lower, upper and mixed case.     *)

SeniorityTitles ==
    {T_Engineering, T_SeniorEngineer, T_SENIOR_ENGINEER, T_PreSeniorish, T_HeadOfData,
     T_DataAnalyst, T_TeamLead, T_Leader, T_PRINCIPAL, T_Architect, T_Director, T_Manager,
     T_HeadOffice, T_Headof, T_Junior}

SeniorityJobLists ==
    UNION {[1..n -> {[title |-> t, link |-> Link1] : t \in SeniorityTitles}] : n \in 0..MaxJobs}

\* job_filter.deduplicate_jobs(all_jobs) on a JobFilter whose history is loaded
CallDeduplicateJobs ==
    /\ pc = "dedup"
    /\ LET r == DeduplicateJobs(jobs, history) IN
       /\ all_jobs' = jobs
       /\ jobs' = r.new_jobs
       /\ duplicate_jobs' = r.duplicate_jobs
       /\ excluded_count' = Len(jobs) - Len(r.new_jobs) - Len(r.duplicate_jobs)
    /\ pc' = "deduped"
    /\ UNCHANGED <<raw_emails, filtered_jobs, notifications_sent, threshold, file, history,
                   loaded, last_save, io_failed, delivered, notified, pre_history, run,
                   last_call, procs, reply, env, clean_call>>

InitDedup ==
    /\ pc = "dedup"
    /\ raw_emails = <<>>
    /\ jobs \in SeniorityJobLists
    /\ duplicate_jobs = <<>>
    /\ filtered_jobs = <<>>
    /\ notifications_sent = 0
    /\ threshold = DefaultThreshold
    /\ file = NoFile
    /\ history \in {{}, {Link1}}
    /\ loaded = NoLoad
    /\ excluded_count = 0
    /\ all_jobs = <<>>
    /\ last_save = NoSave
    /\ io_failed = FALSE
    /\ delivered = {}
    /\ notified = {}
    /\ pre_history = {}
    /\ run = 1
    /\ last_call = NoCall
    /\ procs = <<>>
    /\ reply = NoReply
    /\ env = NoEnv
    /\ clean_call = NoUrl

NextDedup == CallDeduplicateJobs

SpecDedup == InitDedup /\ [][NextDedup]_vars

----------------------------------------------------------------------------
(* parse_jobs on one email body, for bodies of table-format anchors and job  *)
(* cards: the same link with different tracking parameters, relative hrefs,  *)
(* blank anchor texts, elements with and without a "company · location".     *)

Tail_AcmeCorp_Oslo == [sep |-> TRUE, company |-> <<"Acme", "Corp">>, location |-> L_Oslo]
Tail_Beta_Espoo == [sep |-> TRUE, company |-> <<"Beta">>, location |-> L_Espoo]

ParseTails == {NoTail, Tail_AcmeCorp_Oslo, Tail_Beta_Espoo}

ParseTexts == {T_Engineering, T_DataAnalyst, <<" ">>}

\* /comm/jobs/view/1?a
RelativeHref1 == <<JobViewPath, "1", "?", "a">>

ParseElements ==
    {Element("a", h, t, tl) :
        h \in {Link1 \o <<"?", "a">>, Link1 \o <<"?", "b">>, Link2}, t \in ParseTexts,
        tl \in ParseTails}
    \cup {Element("card", h, t, tl) :
        h \in {RelativeHref1, Link2}, t \in ParseTexts, tl \in ParseTails}

ParseDocuments == UNION {[1..n -> ParseElements] : n \in 0..MaxElements}

InitParse ==
    /\ pc = "parse_jobs"
    /\ \E html \in ParseDocuments : raw_emails = <<html>>
    /\ jobs = <<>>
    /\ duplicate_jobs = <<>>
    /\ filtered_jobs = <<>>
    /\ notifications_sent = 0
    /\ threshold = DefaultThreshold
    /\ file = NoFile
    /\ history = {}
    /\ loaded = NoLoad
    /\ excluded_count = 0
    /\ all_jobs = <<>>
    /\ last_save = NoSave
    /\ io_failed = FALSE
    /\ delivered = {}
    /\ notified = {}
    /\ pre_history = {}
    /\ run = 1
    /\ last_call = NoCall
    /\ procs = <<>>
    /\ reply = NoReply
    /\ env = NoEnv
    /\ clean_call = NoUrl

NextParse == ParseJobs

SpecParse == InitParse /\ [][NextParse]_vars

----------------------------------------------------------------------------
(* JobParser._clean_linkedin_url called on a URL and then on what it returned. *)

\* URLs made of the two literals, a digit, a letter, "/" and "?": the empty string,
\* absolute job-view URLs with and without a query, relative job-view paths, others.
UrlElements == {LinkedinOrigin, JobViewPath, "1", "x", "/", "?"}

UrlInputs == UNION {[1..n -> UrlElements] : n \in 0..MaxUrlLen}

\* parser._clean_linkedin_url(url)
CleanCall ==
    /\ pc = "clean"
    /\ clean_call' = [clean_call EXCEPT !.once = CleanLinkedinUrl(clean_call.given)]
    /\ pc' = "cleaned"
    /\ UNCHANGED <<raw_emails, jobs, duplicate_jobs, filtered_jobs, notifications_sent,
                   threshold, file, history, loaded, excluded_count, all_jobs, last_save,
                   io_failed, delivered, notified, pre_history, run, last_call, procs, reply,
                   env>>

\* parser._clean_linkedin_url on the link the first call returned
CleanAgain ==
    /\ pc = "cleaned"
    /\ clean_call' = [clean_call EXCEPT !.twice = CleanLinkedinUrl(clean_call.once)]
    /\ pc' = "cleaned_again"
    /\ UNCHANGED <<raw_emails, jobs, duplicate_jobs, filtered_jobs, notifications_sent,
                   threshold, file, history, loaded, excluded_count, all_jobs, last_save,
                   io_failed, delivered, notified, pre_history, run, last_call, procs, reply,
                   env>>

InitClean ==
    /\ pc = "clean"
    /\ raw_emails = <<>>
    /\ jobs = <<>>
    /\ duplicate_jobs = <<>>
    /\ filtered_jobs = <<>>
    /\ notifications_sent = 0
    /\ threshold = DefaultThreshold
    /\ file = NoFile
    /\ history = {}
    /\ loaded = NoLoad
    /\ excluded_count = 0
    /\ all_jobs = <<>>
    /\ last_save = NoSave
    /\ io_failed = FALSE
    /\ delivered = {}
    /\ notified = {}
    /\ pre_history = {}
    /\ run = 1
    /\ last_call = NoCall
    /\ procs = <<>>
    /\ reply = NoReply
    /\ env = NoEnv
    /\ \E u \in UrlInputs : clean_call = [given |-> u, once |-> <<>>, twice |-> <<>>]

NextClean ==
    \/ CleanCall
    \/ CleanAgain

SpecClean == InitClean /\ [][NextClean]_vars

----------------------------------------------------------------------------
(* Properties *)

\* The edges build_graph adds, entry point to END.
Edges ==
    {<<"read_emails", "parse_jobs">>, <<"parse_jobs", "deduplicate_jobs">>,
     <<"deduplicate_jobs", "extract_requirements">>, <<"extract_requirements", "match_jobs">>,
     <<"match_jobs", "filter_jobs">>, <<"filter_jobs", "notify_jobs">>, <<"notify_jobs", "END">>}

\* A title contains a seniority keyword.
HasSeniorityKeyword(title) ==
    \E k \in 1..Len(excluded_keywords) : Contains(Lower(title), excluded_keywords[k])

\* The elements of js at the indexes in K, in the order of js.
Pick(js, K) ==
    LET InK(i) == i \in K
        idx == SelectSeq([i \in 1..Len(js) |-> i], InK)
    IN  [n \in 1..Len(idx) |-> js[idx[n]]]

\* How often the job j occurs in js.
Count(js, j) == Cardinality({i \in 1..Len(js) : js[i] = j})

\* The indexes of the jobs at or above the threshold whose link is neither in hist
\* nor the link of an earlier job at or above the threshold.
ExpectedKept(js, hist, thr) ==
    {i \in 1..Len(js) :
        /\ ScoreOf(js[i]) >= thr
        /\ js[i].link \notin hist
        /\ \A j \in 1..(i - 1) : js[j].link = js[i].link => ScoreOf(js[j]) < thr}

\* C1: a filter_jobs call that returns gives, in input order, exactly the jobs whose
\* score (0 when missing) is at least the threshold and whose link is not in the
\* history when the job is reached (the history before the call plus the links kept
\* earlier in the call), and every kept link is in the history after the call.
C1_FilterContract ==
    (last_call.made /\ ~last_call.raised) =>
        /\ last_call.filtered = Pick(jobs, ExpectedKept(jobs, last_call.before, threshold))
        /\ LinksOf(last_call.filtered) \subseteq last_call.after

\* Two jobs share a link and both reach the threshold, the first exactly; only the
\* first is returned.
C1_Witness ==
    /\ last_call.made
    /\ ~last_call.raised
    /\ Len(jobs) = 2
    /\ jobs[1].link = jobs[2].link
    /\ ScoreOf(jobs[1]) = threshold
    /\ ScoreOf(jobs[2]) > threshold
    /\ last_call.filtered = <<jobs[1]>>

\* C2: with no history-file I/O failure, every filter_jobs call on the job list after
\* the first returns the empty list, on the same JobFilter or on a new one that loads
\* the file the earlier call wrote.
C2_SecondFilterEmpty ==
    (~io_failed /\ last_call.repeated) => last_call.filtered = <<>>

\* An earlier call kept a job (its link is in the history and was not before), and a
\* later call, on a new JobFilter, returned nothing.
C2_Witness ==
    /\ last_call.repeated
    /\ last_call.fresh
    /\ ~io_failed
    /\ last_call.filtered = <<>>
    /\ \E i \in 1..Len(jobs) :
         /\ ScoreOf(jobs[i]) >= threshold
         /\ jobs[i].link \in last_call.before
         /\ jobs[i].link \notin pre_history

\* C3: with no history-file I/O failure so far, no link in this run's filtered_jobs
\* was in the filtered_jobs of an earlier run.
C3_DeliveredOnce ==
    ~io_failed => LinksOf(filtered_jobs) \cap delivered = {}

\* A later run met a posting delivered earlier, set it aside as a duplicate and
\* delivered another one.
C3_Witness ==
    /\ pc = "END"
    /\ ~io_failed
    /\ filtered_jobs # <<>>
    /\ LinksOf(duplicate_jobs) \cap delivered # {}

\* C4: at the end of a run, every link the history file lists was listed before the
\* first run or belongs to a job whose notification was sent.
C4_HistoryOnlyNotified ==
    pc = "END" => LoadHistory(file, TRUE) \subseteq (pre_history \cup notified)

\* C5: when a history write fails after it began, the next load returns the set
\* persisted before the write or the complete new set, and the history in memory is
\* the new set.
C5_FailedWriteNotObservable ==
    last_save.outcome = "write_raises" =>
        /\ LoadHistory(file, TRUE) \in {last_save.old, last_save.new}
        /\ history = last_save.new

\* C6: no history-file I/O failure makes deduplicate_jobs or filter_jobs raise: no
\* run ends with an exception.
C6_NoExceptionEscapes == pc # "RAISED"

\* C7: a newly constructed JobFilter holds exactly the links a well-formed, readable
\* history file lists, and the empty set for any other file.
C7_LoadContract ==
    pc = "fresh" =>
        loaded.links = IF file.t # "nofile" /\ loaded.read_ok /\ WellFormed(file)
                       THEN ListedLinks(file)
                       ELSE {}

\* C8: after the deduplicate_jobs node, jobs holds, in input order, the input jobs
\* with no seniority keyword in the title and a link outside the history, and
\* duplicate_jobs those with no seniority keyword and a link in the history; a job
\* with a seniority keyword is in neither.
C8_PreScoringClassification ==
    pc = "extract_requirements" =>
        LET IsNew(j) == ~HasSeniorityKeyword(j.title) /\ j.link \notin history
            IsDup(j) == ~HasSeniorityKeyword(j.title) /\ j.link \in history
        IN  /\ jobs = SelectSeq(all_jobs, IsNew)
            /\ duplicate_jobs = SelectSeq(all_jobs, IsDup)

\* A senior posting whose link is in the history was dropped from both lists, next
\* to a posting that went to duplicate_jobs.
C8_Witness ==
    /\ pc = "extract_requirements"
    /\ duplicate_jobs # <<>>
    /\ \E i \in 1..Len(all_jobs) :
         /\ HasSeniorityKeyword(all_jobs[i].title)
         /\ all_jobs[i].link \in history
         /\ Count(jobs, all_jobs[i]) = 0
         /\ Count(duplicate_jobs, all_jobs[i]) = 0

\* C9: after the deduplicate_jobs node the three groups partition the input: the
\* lengths add up, excluded_count is the number of input jobs with a seniority
\* keyword, and each input job is in exactly one group, as often as in the input.
C9_PartitionExhaustiveDisjoint ==
    pc = "extract_requirements" =>
        /\ Len(jobs) + Len(duplicate_jobs) + excluded_count = Len(all_jobs)
        /\ excluded_count =
             Cardinality({i \in 1..Len(all_jobs) : HasSeniorityKeyword(all_jobs[i].title)})
        /\ \A i \in 1..Len(all_jobs) :
             LET j == all_jobs[i]
                 n == Count(jobs, j)
                 d == Count(duplicate_jobs, j)
                 x == IF HasSeniorityKeyword(j.title) THEN Count(all_jobs, j) ELSE 0
             IN  /\ n + d + x = Count(all_jobs, j)
                 /\ Cardinality({g \in {"new", "duplicate", "excluded"} :
                                   \/ g = "new" /\ n > 0
                                   \/ g = "duplicate" /\ d > 0
                                   \/ g = "excluded" /\ x > 0}) = 1

\* One posting of each group's kind among two: a duplicate and an excluded one.
C9_Witness ==
    /\ pc = "extract_requirements"
    /\ Len(all_jobs) = 2
    /\ Len(duplicate_jobs) = 1
    /\ excluded_count = 1

\* C10: the steps before the filter_jobs node never change the history file, the
\* deduplicate_jobs node leaves the history as _load_history returned it, and the
\* stages after it up to filter_jobs leave it unchanged.
C10_NoHistoryMutationBeforeFilter ==
    [][/\ pc \in {"read_emails", "parse_jobs", "deduplicate_jobs",
                  "extract_requirements", "match_jobs"} => file' = file
       /\ pc = "deduplicate_jobs" => history' = loaded'.links
       /\ pc \in {"read_emails", "parse_jobs", "extract_requirements", "match_jobs"}
            => history' = history]_vars

\* Both stages have run on new jobs, with the history file and the loaded history
\* non-empty and as they were.
C10_Witness ==
    /\ pc = "filter_jobs"
    /\ run = 1
    /\ jobs # <<>>
    /\ history # {}
    /\ history = pre_history
    /\ LoadHistory(file, TRUE) = pre_history

\* C11: a filter_jobs call changes the history only by adding the links of the jobs
\* it keeps: the history after a call that returns is the history before united with
\* the links returned, the history never loses a link, and every link added is the
\* link of a job whose score is at least the threshold.
C11_HistoryGrowsByKept ==
    last_call.made =>
        /\ last_call.before \subseteq last_call.after
        /\ ~last_call.raised =>
              last_call.after = last_call.before \cup LinksOf(last_call.filtered)
        /\ \A l \in last_call.after \ last_call.before :
              \E i \in 1..Len(jobs) : jobs[i].link = l /\ ScoreOf(jobs[i]) >= threshold

\* A call kept one job and passed over a job below the threshold, whose link is not
\* in the history afterwards.
C11_Witness ==
    /\ last_call.made
    /\ ~last_call.raised
    /\ last_call.filtered # <<>>
    /\ \E i \in 1..Len(jobs) :
         /\ ScoreOf(jobs[i]) < threshold
         /\ jobs[i].link \notin last_call.after

\* C12: a filter_jobs call that keeps no job does not write the history file, and a
\* call that keeps at least one job calls _save_history exactly once, with the history
\* as it is after the whole list was examined; when that write succeeds the file lists
\* exactly that history.
C12_PersistOncePerPhase ==
    [][pc' = "used" =>
         IF history' = history
         THEN last_save'.writes = 0 /\ file' = file
         ELSE /\ last_save'.writes = 1
              /\ last_save'.new = history'
              /\ last_save'.outcome = "ok" =>
                    WellFormed(file') /\ ListedLinks(file') = history']_vars

\* A call kept two jobs and wrote the file once, with both links in it.
C12_Witness ==
    /\ last_call.made
    /\ Len(last_call.filtered) = 2
    /\ last_save.outcome = "ok"
    /\ last_save.writes = 1
    /\ LinksOf(last_call.filtered) \subseteq ListedLinks(file)

\* C13: within a run the history is loaded once: the filter_jobs node starts from the
\* set the deduplicate_jobs node loaded and holds in memory, without reading the file
\* again, and mutates that set.
C13_LoadedOncePerRun ==
    [][pc = "filter_jobs" => (loaded'.links = history /\ history \subseteq history')]_vars

\* C14: when two runs interleave over one history file and both have ended, the file
\* lists every link either run kept and wrote (no lost update), and no link is in
\* the filtered_jobs of both runs.
C14_NoInterference ==
    (\A p \in Runs : procs[p].pc = "END") =>
        /\ \A p \in Runs : LinksOf(procs[p].filtered_jobs) \subseteq LoadHistory(file, TRUE)
        /\ LinksOf(procs[1].filtered_jobs) \cap LinksOf(procs[2].filtered_jobs) = {}

\* C15: every run executes the seven stages once each, in the order of the graph's
\* edges: a stage that has run is followed by its successor on the graph, the last
\* by the end of the run, and only a run that has gone through all of them is
\* followed by a new run.
C15_StrictLinearOrder ==
    [][pc' # pc => (<<pc, pc'>> \in Edges \/ (pc = "END" /\ pc' = "read_emails"))]_vars

\* The fields of a job that Stage A and Stage B set.
StageFields == {"requirements", "score", "reasons", "enhanced_result"}

\* C16: each stage writes only its own fields of the run state: parse_jobs only jobs;
\* deduplicate_jobs only jobs and duplicate_jobs; extract_requirements and match_jobs
\* only jobs, keeping the list's length and every job's other fields; filter_jobs
\* only filtered_jobs; notify_jobs only notifications_sent.
C16_StageFrame ==
    [][/\ pc = "parse_jobs" =>
            UNCHANGED <<raw_emails, duplicate_jobs, filtered_jobs, notifications_sent>>
       /\ pc = "deduplicate_jobs" =>
            UNCHANGED <<raw_emails, filtered_jobs, notifications_sent>>
       /\ pc \in {"extract_requirements", "match_jobs"} =>
            /\ UNCHANGED <<raw_emails, duplicate_jobs, filtered_jobs, notifications_sent>>
            /\ Len(jobs') = Len(jobs)
            /\ \A i \in 1..Len(jobs) :
                 /\ DOMAIN jobs[i] \subseteq DOMAIN jobs'[i]
                 /\ \A f \in DOMAIN jobs[i] \ StageFields : jobs'[i][f] = jobs[i][f]
       /\ pc = "filter_jobs" =>
            UNCHANGED <<raw_emails, jobs, duplicate_jobs, notifications_sent>>
       /\ pc = "notify_jobs" =>
            UNCHANGED <<raw_emails, jobs, duplicate_jobs, filtered_jobs>>]_vars

\* A run has ended in which every stage wrote its fields: jobs were parsed, one went
\* to duplicate_jobs, one was scored, kept and sent.
C16_Witness ==
    /\ pc = "END"
    /\ raw_emails # <<>>
    /\ duplicate_jobs # <<>>
    /\ jobs # <<>>
    /\ "score" \in DOMAIN jobs[1]
    /\ filtered_jobs # <<>>
    /\ notifications_sent = Len(filtered_jobs)

\* C17 as stated: every posting whose link is in the history the deduplicate_jobs node
\* loaded is in duplicate_jobs, as often as in the input, and its link is not among
\* the jobs handed to extract_requirements, match_jobs and filter_jobs.
C17_KnownLinkToDuplicates ==
    pc \in {"extract_requirements", "match_jobs", "filter_jobs"} =>
        \A i \in 1..Len(all_jobs) :
            all_jobs[i].link \in history =>
                /\ Count(duplicate_jobs, all_jobs[i]) = Count(all_jobs, all_jobs[i])
                /\ all_jobs[i].link \notin LinksOf(jobs)

\* C17, amended: a posting whose link is in the history the deduplicate_jobs node
\* loaded is in duplicate_jobs, as often as in the input, unless its title has a
\* seniority keyword, and then it is in neither list; in both cases its link is not
\* among the jobs handed to extract_requirements, match_jobs and filter_jobs.
C17_KnownLinkNeverScored ==
    pc \in {"extract_requirements", "match_jobs", "filter_jobs"} =>
        \A i \in 1..Len(all_jobs) :
            all_jobs[i].link \in history =>
                /\ all_jobs[i].link \notin LinksOf(jobs)
                /\ Count(duplicate_jobs, all_jobs[i]) =
                     IF HasSeniorityKeyword(all_jobs[i].title)
                     THEN 0
                     ELSE Count(all_jobs, all_jobs[i])

\* Two postings from two emails share a link that is in the history; both are in
\* duplicate_jobs and the filter_jobs node is about to run without them.
C17_Witness ==
    /\ pc = "filter_jobs"
    /\ Len(all_jobs) = 2
    /\ all_jobs[1].link = all_jobs[2].link
    /\ all_jobs[1].link \in history
    /\ duplicate_jobs = all_jobs
    /\ jobs = <<>>

\* C18: whatever the model replies, the score match_job attaches to the job is within
\* 0..100.
C18_ScoreBounded ==
    pc = "matched" => jobs[1].score \in 0..100

\* The Stage B call failed: the model call raised, or the content is no JSON, or no
\* JSON object, or an object whose match_score is no number.
StageBFailed(r) ==
    \/ r.k = "raises"
    \/ /\ r.k = "content"
       /\ \/ r.body.t # "dict"
          \/ /\ "match_score" \in DOMAIN r.body.v
             /\ LET v == r.body.v["match_score"] IN
                \/ v.t \in {"null", "arr", "dict"}
                \/ v.t = "str" /\ ~IsDigits(v.v)

\* C19: when the Stage B call failed, the job has score 0, a report with match_score
\* 0 and empty strong_matches, partial_matches, gaps and cv_suggestions, and reasons
\* that state the error.
C19_FailurePolicy ==
    (pc = "matched" /\ StageBFailed(reply)) =>
        /\ jobs[1].score = 0
        /\ jobs[1].enhanced_result = ZeroResult
        /\ jobs[1].reasons.text = "Enhanced matching error"

C21_ZeroScoreNeverPasses ==
    pc \in {"notify_jobs", "END"} =>
        \A i \in 1..Len(jobs) :
            StageBFailed(reply.b[i]) =>
                /\ Count(filtered_jobs, jobs[i]) = 0
                /\ jobs[i].link \in history =>
                      \/ jobs[i].link \in loaded.links
                      \/ \E j \in 1..Len(jobs) :
                            /\ jobs[j].link = jobs[i].link
                            /\ ~StageBFailed(reply.b[j])
                            /\ Count(filtered_jobs, jobs[j]) > 0

\* C22: when the Stage A model call raises, extract_requirements returns exactly one
\* requirement, with category "role", the job's title as item, empty level and
\* priority "must"; when the content is no JSON, or JSON that is no array, or the
\* empty array, it returns the empty list; it returns in every case.
C22_StageAFallback ==
    /\ pc \in {"extract", "extracted"}
    /\ pc = "extracted" =>
         /\ reply.k = "raises" =>
               jobs[1].requirements =
                 <<[category |-> "role", item |-> jobs[1].title, level |-> "", priority |-> "must"]>>
         /\ (reply.k = "content" /\ (reply.body.t # "arr" \/ reply.body.v = <<>>)) =>
               jobs[1].requirements = <<>>

\* The model call raised for a job titled "Data Analyst": one requirement, the title.
C22_Witness ==
    /\ pc = "extracted"
    /\ reply = Raises
    /\ Len(jobs[1].requirements) = 1
    /\ jobs[1].requirements[1].item = T_DataAnalyst

\* An entry is an object that has the key item.
IsObjectWithItem(e) == e.t = "dict" /\ "item" \in DOMAIN e.v

\* C23: for a reply that is a JSON array, the requirements are, in the order of the
\* array, one for each entry that is an object with the key item and none for any
\* other entry; each has the entry's item, the entry's category, level and priority
\* where the entry has them, and "other", "" and "must" where it has not.
C23_PartialParsing ==
    (pc = "extracted" /\ reply.k = "content" /\ reply.body.t = "arr") =>
        LET kept == SelectSeq(reply.body.v, IsObjectWithItem)
            reqs == jobs[1].requirements
        IN  /\ Len(reqs) = Len(kept)
            /\ \A n \in 1..Len(kept) :
                 /\ DOMAIN reqs[n] = {"category", "item", "level", "priority"}
                 /\ reqs[n].item = kept[n].v["item"]
                 /\ reqs[n].category =
                      IF "category" \in DOMAIN kept[n].v THEN kept[n].v["category"] ELSE "other"
                 /\ reqs[n].level =
                      IF "level" \in DOMAIN kept[n].v THEN kept[n].v["level"] ELSE ""
                 /\ reqs[n].priority =
                      IF "priority" \in DOMAIN kept[n].v THEN kept[n].v["priority"] ELSE "must"

\* An array of an object without item and an object with item only: one requirement,
\* for the second entry, with the three defaults.
C23_Witness ==
    /\ pc = "extracted"
    /\ reply.k = "content"
    /\ reply.body.t = "arr"
    /\ Len(reply.body.v) = 2
    /\ ~IsObjectWithItem(reply.body.v[1])
    /\ jobs[1].requirements =
         <<[category |-> "other", item |-> R_Go, level |-> "", priority |-> "must"]>>

\* The keywords the exclusion is stated for.
SeniorityKeywords ==
    {K_senior, K_lead, K_principal, K_architect, K_director, K_manager, K_head_of}

\* C24: deduplicate_jobs excludes a posting (puts it in neither list) exactly when its
\* lower-cased title contains senior, lead, principal, architect, director, manager
\* or "head of"; "Senior Engineer", "SENIOR ENGINEER" and "Pre-Senior-ish Engineer"
\* are excluded and "Engineering" is not.
C24_SeniorityExclusion ==
    /\ IsSeniorRole(T_SeniorEngineer)
    /\ IsSeniorRole(T_SENIOR_ENGINEER)
    /\ IsSeniorRole(T_PreSeniorish)
    /\ ~IsSeniorRole(T_Engineering)
    /\ pc = "deduped" =>
         \A i \in 1..Len(all_jobs) :
            (Count(jobs, all_jobs[i]) = 0 /\ Count(duplicate_jobs, all_jobs[i]) = 0)
              <=> \E k \in SeniorityKeywords : Contains(Lower(all_jobs[i].title), k)

\* "Pre-Senior-ish Engineer" was excluded and "Engineering", next to it, was not.
C24_Witness ==
    /\ pc = "deduped"
    /\ Len(all_jobs) = 2
    /\ all_jobs[1].title = T_PreSeniorish
    /\ all_jobs[2].title = T_Engineering
    /\ excluded_count = 1
    /\ Len(jobs) + Len(duplicate_jobs) = 1
    /\ Count(jobs, all_jobs[1]) = 0 /\ Count(duplicate_jobs, all_jobs[1]) = 0

\* The elements of html that are occurrences of a job for the strategy whose result
\* parse_html returns: the anchors job_pattern matches that hold a title, or, when
\* there is none, the job cards.
Occurrences(html) ==
    LET matched == {i \in 1..Len(html) : JobPatternMatches(html[i]) /\ Strip(html[i].text) # <<>>}
    IN  IF matched # {} THEN matched ELSE {i \in 1..Len(html) : html[i].kind = "card"}

\* C25: parse_html returns one posting for each canonical link that occurs in the
\* document, in the order in which the links first occur, and the posting has the
\* title, company and location of the element where its link first occurs.
C25_FirstOccurrenceKept ==
    pc = "deduplicate_jobs" =>
        LET html == raw_emails[1]
            occ == Occurrences(html)
            firsts == {i \in occ : \A j \in occ :
                          j < i => CleanLinkedinUrl(html[j].href) # CleanLinkedinUrl(html[i].href)}
            first == Pick(html, firsts)
        IN  /\ Len(jobs) = Len(first)
            /\ \A n \in 1..Len(first) :
                 /\ jobs[n].link = CleanLinkedinUrl(first[n].href)
                 /\ jobs[n].title = Strip(first[n].text)
                 /\ jobs[n].company = first[n].company
                 /\ jobs[n].location = Strip(first[n].location)

\* C26: when the table-format strategy yields a posting, parse_html returns exactly
\* its postings, all of them from anchors job_pattern matches, and no job card adds
\* one; only when it yields none are the postings those of the job cards, one for
\* each link, the first.
C26_FirstStrategyWins ==
    pc = "deduplicate_jobs" =>
        LET html == raw_emails[1]
            table == ParseTableFormat(html)
            cards == CardJobs(html)
        IN  IF table # <<>>
            THEN /\ jobs = table
                 /\ LinksOf(jobs) \subseteq
                      {CleanLinkedinUrl(html[i].href) :
                          i \in {j \in 1..Len(html) : JobPatternMatches(html[j])}}
            ELSE jobs = Pick(cards, {i \in 1..Len(cards) :
                                        \A j \in 1..(i - 1) : cards[j].link # cards[i].link})

\* A body with a job card of one link, which job_pattern does not match, and an
\* anchor of another, which it matches: the one posting returned is the anchor's.
C26_Witness ==
    /\ pc = "deduplicate_jobs"
    /\ \E i \in 1..Len(raw_emails[1]) :
         /\ raw_emails[1][i].kind = "card"
         /\ ~JobPatternMatches(raw_emails[1][i])
         /\ Strip(raw_emails[1][i].text) # <<>>
         /\ CleanLinkedinUrl(raw_emails[1][i].href) = Link1
    /\ Len(jobs) = 1
    /\ jobs[1].link = Link2

\* C27: for every URL, _clean_linkedin_url called on the link it returned returns
\* that link again.
C27_CleanIdempotent ==
    pc = "cleaned_again" => clean_call.twice = clean_call.once

\* The links the history file listed when the run began: only the filter_jobs node
\* writes the file, and last_save holds what it listed before that write.
RunStartHistory ==
    IF last_save.outcome = "none" THEN LoadHistory(file, TRUE) ELSE last_save.old

\* a is b with some of its elements left out.
RECURSIVE IsSubList(_, _)
IsSubList(a, b) ==
    IF a = <<>> THEN TRUE
    ELSE IF b = <<>> THEN FALSE
    ELSE IF Head(a) = Head(b) THEN IsSubList(Tail(a), Tail(b))
    ELSE IsSubList(a, Tail(b))

\* What C28 says of filtered_jobs apart from the history: no title with a seniority
\* keyword, no score below the threshold, a sub-list of the jobs classified as new,
\* no link shared with duplicate_jobs.
SinkSafe ==
    /\ \A i \in 1..Len(filtered_jobs) :
         /\ ~HasSeniorityKeyword(filtered_jobs[i].title)
         /\ ScoreOf(filtered_jobs[i]) >= threshold
    /\ IsSubList(filtered_jobs, jobs)
    /\ LinksOf(filtered_jobs) \cap LinksOf(duplicate_jobs) = {}

\* C28 as stated: in every run, after the filter_jobs node, no job of filtered_jobs has
\* a title with a seniority keyword, a link the history file listed when the run
\* began, or a score below the threshold; filtered_jobs is a sub-list of the jobs
\* classified as new and shares no link with duplicate_jobs.
C28_SinkSafety ==
    pc \in {"notify_jobs", "END"} =>
        /\ SinkSafe
        /\ LinksOf(filtered_jobs) \cap RunStartHistory = {}

\* C28, amended: the same, the links the history file listed when the run began being
\* excluded when the filter_jobs node could read the file; in every run no job of
\* filtered_jobs has a link of the history that node loaded.
C28_SinkSafetyWhenReadable ==
    pc \in {"notify_jobs", "END"} =>
        /\ SinkSafe
        /\ LinksOf(filtered_jobs) \cap loaded.links = {}
        /\ loaded.read_ok => LinksOf(filtered_jobs) \cap RunStartHistory = {}

\* The deduplicate_jobs node could not read the file and took a listed link for new;
\* the filter_jobs node read it, and kept another job but not that one.
C28_Witness ==
    /\ pc = "END"
    /\ loaded.read_ok
    /\ duplicate_jobs = <<>>
    /\ Len(jobs) = 2
    /\ jobs[1].link \in RunStartHistory
    /\ ScoreOf(jobs[1]) >= threshold
    /\ filtered_jobs = <<jobs[2]>>

\* C29: filtered_jobs never holds two jobs with the same link: of the jobs that share
\* a link and reach the threshold, it holds the first in list order, when the link
\* is not in the history the node loaded, and none of the others.
C29_NoLinkTwiceInSink ==
    pc \in {"notify_jobs", "END"} =>
        /\ \A i, j \in 1..Len(filtered_jobs) :
              filtered_jobs[i].link = filtered_jobs[j].link => i = j
        /\ filtered_jobs = Pick(jobs, ExpectedKept(jobs, loaded.links, threshold))

\* Two emails brought the same link; both copies reached the threshold, with
\* different requirements; filtered_jobs holds the first copy only.
C29_Witness ==
    /\ pc = "notify_jobs"
    /\ Len(raw_emails) = 2
    /\ Len(jobs) = 2
    /\ jobs[1].link = jobs[2].link
    /\ jobs[1] # jobs[2]
    /\ ScoreOf(jobs[1]) >= threshold
    /\ ScoreOf(jobs[2]) >= threshold
    /\ filtered_jobs = <<jobs[1]>>

\* C30: the job list handed to extract_requirements and match_jobs holds each link
\* once, also when two emails of the run brought the same link.
C30_EachLinkScoredOnce ==
    pc \in {"extract_requirements", "match_jobs"} =>
        \A i, j \in 1..Len(jobs) : jobs[i].link = jobs[j].link => i = j

====
